---------------------------- MODULE Spec2Model ----------------------------
(***************************************************************************)
(* Model of dashboard.py: a Streamlit script that is re-executed from the  *)
(* top on every interaction.  One script run renders the page selected in  *)
(* the sidebar.  Provider (yfinance) responses are the inputs of a run.    *)
(*                                                                         *)
(* Numbers: the script computes in binary floating point.  The model keeps *)
(* the special values of that arithmetic (NaN, +inf, -inf) and replaces    *)
(* the rounded finite values by exact rationals.                           *)
(***************************************************************************)
EXTENDS Integers, Sequences, FiniteSets, TLC

VARIABLES page, pc, index_metrics, movers_data, movers_df, sentiment,
          hist, outcome, rsi, macd, signal, sma, std, upper_band, lower_band,
          rsi_label, macd_label, current_bb_position, bb_label

vars == <<page, pc, index_metrics, movers_data, movers_df, sentiment,
          hist, outcome, rsi, macd, signal, sma, std, upper_band, lower_band,
          rsi_label, macd_label, current_bb_position, bb_label>>

overview_vars == <<index_metrics, movers_data, movers_df, sentiment>>

indicator_vars == <<hist, rsi, macd, signal, sma, std, upper_band, lower_band,
                    rsi_label, macd_label, current_bb_position, bb_label>>

-----------------------------------------------------------------------------
(* Bounds of the model *)

\* longest price series the provider returns
MaxLen == 21

\* how many entries of popular_stocks a run iterates over
NumStocks == 2

-----------------------------------------------------------------------------
(* Exact rationals [n, d] with d > 0, kept in lowest terms *)

Abs(x) == IF x < 0 THEN -x ELSE x

Min(a, b) == IF a < b THEN a ELSE b

Max(a, b) == IF a > b THEN a ELSE b

\* Euclid's algorithm, two steps at a time
RECURSIVE GCD(_, _)
GCD(a, b) ==
    IF b = 0 THEN a
    ELSE IF a % b = 0 THEN b
    ELSE GCD(a % b, b % (a % b))

Rat(n, d) ==
    LET s == IF d < 0 THEN -1 ELSE 1
        g == GCD(Abs(n), Abs(d))
    IN  [n |-> (s * n) \div g, d |-> (s * d) \div g]

RatInt(i) == [n |-> i, d |-> 1]

RatNeg(x) == [n |-> -x.n, d |-> x.d]

RatAdd(x, y) ==
    LET g == GCD(x.d, y.d)
        l == (x.d \div g) * y.d
    IN  Rat(x.n * (l \div x.d) + y.n * (l \div y.d), l)

RatSub(x, y) == RatAdd(x, RatNeg(y))

RatMul(x, y) ==
    LET g1 == GCD(Abs(x.n), y.d)
        g2 == GCD(Abs(y.n), x.d)
    IN  IF x.n = 0 \/ y.n = 0 THEN RatInt(0)
        ELSE [n |-> (x.n \div g1) * (y.n \div g2),
              d |-> (x.d \div g2) * (y.d \div g1)]

\* y.n # 0
RatDiv(x, y) == RatMul(x, Rat(y.d, y.n))

RatLt(x, y) == RatSub(x, y).n < 0

RatLe(x, y) == RatSub(x, y).n <= 0

-----------------------------------------------------------------------------
(* Floating-point values: a finite number, NaN, or an infinity *)

NaN == [k |-> "nan", n |-> 0, d |-> 1]

Inf(s) == [k |-> "inf", n |-> s, d |-> 1]

FRat(x) == [k |-> "num", n |-> x.n, d |-> x.d]

Num(n, d) == FRat(Rat(n, d))

RatOf(x) == [n |-> x.n, d |-> x.d]

IsNum(x) == x.k = "num"

IsNaN(x) == x.k = "nan"

Sign(i) == IF i > 0 THEN 1 ELSE IF i < 0 THEN -1 ELSE 0

FNeg(x) == IF IsNaN(x) THEN NaN ELSE [x EXCEPT !.n = -x.n]

FAdd(x, y) ==
    IF IsNaN(x) \/ IsNaN(y) THEN NaN
    ELSE IF x.k = "inf" /\ y.k = "inf" THEN (IF x.n = y.n THEN x ELSE NaN)
    ELSE IF x.k = "inf" THEN x
    ELSE IF y.k = "inf" THEN y
    ELSE FRat(RatAdd(RatOf(x), RatOf(y)))

FSub(x, y) == FAdd(x, FNeg(y))

FMul(x, y) ==
    IF IsNaN(x) \/ IsNaN(y) THEN NaN
    ELSE IF x.k = "inf" \/ y.k = "inf"
         THEN (IF x.n = 0 \/ y.n = 0 THEN NaN ELSE Inf(Sign(x.n) * Sign(y.n)))
    ELSE FRat(RatMul(RatOf(x), RatOf(y)))

\* array division: x/0 is an infinity, 0/0 is NaN, nothing is raised
FDiv(x, y) ==
    IF IsNaN(x) \/ IsNaN(y) THEN NaN
    ELSE IF y.k = "inf" THEN (IF x.k = "inf" THEN NaN ELSE Num(0, 1))
    ELSE IF x.k = "inf" THEN Inf(IF y.n < 0 THEN -x.n ELSE x.n)
    ELSE IF y.n = 0 THEN (IF x.n = 0 THEN NaN ELSE Inf(Sign(x.n)))
    ELSE FRat(RatDiv(RatOf(x), RatOf(y)))

\* comparisons with NaN are false
FLt(x, y) ==
    IF IsNaN(x) \/ IsNaN(y) THEN FALSE
    ELSE IF x.k = "inf" THEN x.n < 0 /\ ~(y.k = "inf" /\ y.n < 0)
    ELSE IF y.k = "inf" THEN y.n > 0
    ELSE RatLt(RatOf(x), RatOf(y))

FGt(x, y) == FLt(y, x)

FInt(i) == Num(i, 1)

-----------------------------------------------------------------------------
(* Market Overview page *)

indices == {"^GSPC", "^DJI", "^IXIC", "^FTSE"}

popular_stocks ==
    <<"AAPL", "MSFT", "GOOGL", "AMZN", "META", "TSLA", "NVDA", "JPM", "V", "WMT">>

\* dict.get(key, default)
get(dict, key, default) == IF key \in DOMAIN dict THEN dict[key] ELSE default

\* what yf.Ticker(symbol).info returns: a dict, or the access raises
InfoDicts ==
    { [key \in {"regularMarketPrice", "previousClose"} |->
          IF key = "regularMarketPrice" THEN 105 ELSE 100],
      [key \in {"regularMarketPrice", "previousClose"} |->
          IF key = "regularMarketPrice" THEN 50 ELSE 0],
      [key \in {"regularMarketPrice"} |-> 50] }

Raises == [raises |-> TRUE, info |-> [key \in {} |-> 0]]

Returns(dict) == [raises |-> FALSE, info |-> dict]

TickerInfo == {Returns(dict) : dict \in InfoDicts} \cup {Raises}

\* lines 109-112 and 135-138
ChangePct(change, prev_close) ==
    IF prev_close > 0
    THEN FMul(FDiv(FInt(change), FInt(prev_close)), FInt(100))
    ELSE FInt(0)

\* one iteration of the indices loop: the metric shown for the index
IndexMetric(resp) ==
    IF resp.raises THEN [shown |-> "N/A"]
    ELSE LET current_price == get(resp.info, "regularMarketPrice", 0)
             prev_close == get(resp.info, "previousClose", 0)
             change == current_price - prev_close
             change_pct == ChangePct(change, prev_close)
         IN  [shown |-> "metric", current_price |-> current_price,
              prev_close |-> prev_close, change |-> change,
              change_pct |-> change_pct]

\* the movers loop over popular_stocks[1..n]; a symbol that raises is skipped
RECURSIVE MoversData(_, _)
MoversData(resp, n) ==
    IF n = 0 THEN <<>>
    ELSE IF resp[n].raises THEN MoversData(resp, n - 1)
    ELSE LET current_price == get(resp[n].info, "regularMarketPrice", 0)
             prev_close == get(resp[n].info, "previousClose", 0)
             change == current_price - prev_close
             change_pct == ChangePct(change, prev_close)
         IN  Append(MoversData(resp, n - 1),
                    [Symbol |-> popular_stocks[n], Price |-> current_price,
                     prev_close |-> prev_close, Change |-> change,
                     ChangePct |-> change_pct])

FAbs(x) == IF x.n < 0 THEN FNeg(x) ELSE x

\* sort_values('Abs Change %', ascending=False), stable
RECURSIVE Insert(_, _)
Insert(row, sorted) ==
    IF sorted = <<>> THEN <<row>>
    ELSE IF ~FLt(FAbs(row.ChangePct), FAbs(Head(sorted).ChangePct))
         THEN <<row>> \o sorted
         ELSE <<Head(sorted)>> \o Insert(row, Tail(sorted))

RECURSIVE SortMovers(_)
SortMovers(rows) ==
    IF rows = <<>> THEN <<>>
    ELSE Insert(Head(rows), SortMovers(Tail(rows)))

\* values of the volatility index the provider reports
VixPrices == {0, 10, 19, 20, 21, 25, 29, 30, 31, 39, 40, 41, 49, 50, 51, 60}

VixInfo ==
    {Returns([key \in {"regularMarketPrice"} |-> v]) : v \in VixPrices}
        \cup {Returns([key \in {} |-> 0]), Raises}

\* variant: boundaries compared with <= instead of <
Sentiment_inclusive(vix_price) ==
    IF vix_price <= 20 THEN "Extreme Greed"
    ELSE IF vix_price <= 30 THEN "Greed"
    ELSE IF vix_price <= 40 THEN "Neutral"
    ELSE IF vix_price <= 50 THEN "Fear"
    ELSE "Extreme Fear"

\* lines 186-200
Sentiment(vix_price) ==
    IF vix_price < 20 THEN "Extreme Greed"
    ELSE IF vix_price < 30 THEN "Greed"
    ELSE IF vix_price < 40 THEN "Neutral"
    ELSE IF vix_price < 50 THEN "Fear"
    ELSE "Extreme Fear"

VixSentiment(resp) ==
    IF resp.raises THEN [shown |-> "warning"]
    ELSE LET vix_price == get(resp.info, "regularMarketPrice", 0)
         IN  [shown |-> "sentiment", vix_price |-> vix_price,
              sentiment |-> Sentiment(vix_price)]

-----------------------------------------------------------------------------
(* Values a + c * sqrt(r) with rational a, c and r >= 0: what a standard   *)
(* deviation and the arithmetic on it produce.  k is "num", "nan" or "inf" *)
(* (for "inf", a.n carries the sign).                                      *)

Surd(a, c, r) == [k |-> "num", a |-> a, c |-> c, r |-> r]

SNaN == [k |-> "nan", a |-> RatInt(0), c |-> RatInt(0), r |-> RatInt(0)]

SInf(s) == [k |-> "inf", a |-> RatInt(s), c |-> RatInt(0), r |-> RatInt(0)]

\* a finite float as a surd value; a NaN stays a NaN
SOfF(x) ==
    IF IsNaN(x) THEN SNaN
    ELSE IF x.k = "inf" THEN SInf(x.n)
    ELSE Surd(RatOf(x), RatInt(0), RatInt(0))

\* sign(x) * x^2 * r, which orders c * sqrt(r) as the reals do
SgnSq(c, r) ==
    LET sq == RatMul(RatMul(c, r), c)
    IN  IF c.n < 0 THEN RatNeg(sq) ELSE sq

\* sign of the real number a + c * sqrt(r)
SSign(x) ==
    LET lhs == SgnSq(x.c, x.r)
        rhs == SgnSq(RatNeg(x.a), RatInt(1))
    IN  IF RatLt(rhs, lhs) THEN 1 ELSE IF RatLt(lhs, rhs) THEN -1 ELSE 0

SNeg(x) ==
    IF x.k = "nan" THEN SNaN
    ELSE [x EXCEPT !.a = RatNeg(x.a), !.c = RatNeg(x.c)]

\* operands carry the same radicand, or one of them has none
SAdd(x, y) ==
    IF x.k = "nan" \/ y.k = "nan" THEN SNaN
    ELSE IF x.k = "inf" /\ y.k = "inf" THEN (IF x.a = y.a THEN x ELSE SNaN)
    ELSE IF x.k = "inf" THEN x
    ELSE IF y.k = "inf" THEN y
    ELSE Surd(RatAdd(x.a, y.a), RatAdd(x.c, y.c),
              IF x.c.n = 0 THEN y.r ELSE x.r)

SSub(x, y) == SAdd(x, SNeg(y))

\* multiplication by a rational number q
SScale(x, q) ==
    IF x.k = "nan" THEN SNaN
    ELSE IF x.k = "inf"
         THEN (IF q.n = 0 THEN SNaN ELSE SInf(Sign(x.a.n) * Sign(q.n)))
    ELSE Surd(RatMul(x.a, q), RatMul(x.c, q), x.r)

\* array division of two finite values over the same radicand
SDivNum(x, y) ==
    LET hasRoot == y.c.n # 0 /\ y.r.n # 0
        norm == RatSub(RatMul(y.a, y.a), RatMul(RatMul(y.c, y.r), y.c))
    IN  IF SSign(y) = 0
        THEN (IF SSign(x) = 0 THEN SNaN ELSE SInf(SSign(x)))
        ELSE IF ~hasRoot
        THEN Surd(RatDiv(x.a, y.a), RatDiv(x.c, y.a), x.r)
        ELSE IF y.a.n = 0
        THEN Surd(RatDiv(x.c, y.c), RatDiv(x.a, RatMul(y.c, y.r)), y.r)
        ELSE IF norm.n # 0
        THEN Surd(RatDiv(RatSub(RatMul(x.a, y.a),
                                RatMul(RatMul(x.c, y.c), y.r)), norm),
                  RatDiv(RatSub(RatMul(x.c, y.a), RatMul(x.a, y.c)), norm),
                  y.r)
        ELSE Surd(RatDiv(RatAdd(x.a, RatDiv(RatMul(x.c, y.a), y.c)),
                         RatMul(RatInt(2), y.a)),
                  RatInt(0), RatInt(0))

SDiv(x, y) ==
    IF x.k = "nan" \/ y.k = "nan" THEN SNaN
    ELSE IF y.k = "inf" THEN (IF x.k = "inf" THEN SNaN ELSE SOfF(FInt(0)))
    ELSE IF x.k = "inf" THEN SInf(IF SSign(y) < 0 THEN -x.a.n ELSE x.a.n)
    ELSE SDivNum(x, y)

\* x < y; comparisons with NaN are false
SLt(x, y) ==
    IF x.k = "nan" \/ y.k = "nan" THEN FALSE
    ELSE IF x.k = "inf" THEN x.a.n < 0 /\ ~(y.k = "inf" /\ y.a.n < 0)
    ELSE IF y.k = "inf" THEN y.a.n > 0
    ELSE SSign(SSub(x, y)) < 0

SGt(x, y) == SLt(y, x)

SLe(x, y) == x.k # "nan" /\ y.k # "nan" /\ ~SLt(y, x)

SInt(i) == SOfF(FInt(i))

\* the square root of a finite float; NaN stays NaN
SSqrt(x) == IF IsNum(x) THEN Surd(RatInt(0), RatInt(1), RatOf(x)) ELSE SNaN

-----------------------------------------------------------------------------
(* Series operations of the data-frame library, as the script uses them *)

\* Series.diff(): no delta at the first position
diff(close) ==
    [i \in 1..Len(close) |->
        IF i = 1 THEN NaN ELSE FInt(close[i] - close[i - 1])]

\* Series > x and Series < x: a boolean series, False where the entry is NaN
series_gt(s, x) == [i \in 1..Len(s) |-> FGt(s[i], x)]

series_lt(s, x) == [i \in 1..Len(s) |-> FLt(s[i], x)]

\* Series.where(cond, other): keep the entries whose cond is True
where(s, cond, other) ==
    [i \in 1..Len(s) |-> IF cond[i] THEN s[i] ELSE other]

\* s[lo] + ... + s[hi], summed by halves
RECURSIVE FSum(_, _, _)
FSum(s, lo, hi) ==
    IF lo > hi THEN FInt(0)
    ELSE IF lo = hi THEN s[lo]
    ELSE FAdd(FSum(s, lo, (lo + hi) \div 2), FSum(s, (lo + hi) \div 2 + 1, hi))

\* variant: min_periods one short of the window
rolling_mean_short(s, window) ==
    [i \in 1..Len(s) |->
        IF i < window - 1 THEN NaN
        ELSE FDiv(FSum(s, Max(1, i - window + 1), i), FInt(Min(i, window)))]

\* Series.rolling(window).mean(): min_periods defaults to window
rolling_mean(s, window) ==
    [i \in 1..Len(s) |->
        IF i < window THEN NaN
        ELSE FDiv(FSum(s, i - window + 1, i), FInt(window))]

RECURSIVE SumInt(_, _, _)
SumInt(close, lo, hi) ==
    IF lo > hi THEN 0
    ELSE IF lo = hi THEN close[lo]
    ELSE SumInt(close, lo, (lo + hi) \div 2)
             + SumInt(close, (lo + hi) \div 2 + 1, hi)

RECURSIVE SumSq(_, _, _)
SumSq(close, lo, hi) ==
    IF lo > hi THEN 0
    ELSE IF lo = hi THEN close[lo] * close[lo]
    ELSE SumSq(close, lo, (lo + hi) \div 2)
             + SumSq(close, (lo + hi) \div 2 + 1, hi)

\* delta degrees of freedom of Rolling.std() when none is passed
ddof == 1

\* variant: the population divisor, count
Variance_population(close, lo, hi) ==
    LET count == hi - lo + 1
        total == SumInt(close, lo, hi)
    IN  Num(count * SumSq(close, lo, hi) - total * total, count * count)

\* variance of close[lo..hi] with the divisor (count - ddof)
Variance(close, lo, hi) ==
    LET count == hi - lo + 1
        total == SumInt(close, lo, hi)
    IN  Num(count * SumSq(close, lo, hi) - total * total,
            count * (count - ddof))

\* Series.rolling(window).std()
rolling_std(close, window) ==
    [i \in 1..Len(close) |->
        IF i < window THEN SNaN
        ELSE SSqrt(Variance(close, i - window + 1, i))]

\* the recursion of Series.ewm(span, adjust=False).mean() over s[lo..hi],
\* continuing from the average `before` of s[lo - 1]:
\* y[j] = (1 - alpha) * y[j-1] + alpha * s[j]
RECURSIVE Ewm(_, _, _, _, _)
Ewm(s, span, lo, hi, before) ==
    LET alpha == Num(2, span + 1)
        mid == (lo + hi) \div 2
        left == Ewm(s, span, lo, mid, before)
    IN  IF lo > hi THEN <<>>
        ELSE IF lo = hi
        THEN <<FAdd(FMul(FSub(FInt(1), alpha), before), FMul(alpha, s[lo]))>>
        ELSE left \o Ewm(s, span, mid + 1, hi, left[Len(left)])

\* variant: the average starts from 0 instead of the first value
ewm_mean_zero_seed(s, span) == Ewm(s, span, 1, Len(s), FInt(0))

\* Series.ewm(span, adjust=False).mean(): y[1] = s[1]
ewm_mean(s, span) ==
    IF Len(s) = 0 THEN <<>>
    ELSE <<s[1]>> \o Ewm(s, span, 2, Len(s), s[1])

FSeries(close) == [i \in 1..Len(close) |-> FInt(close[i])]

-----------------------------------------------------------------------------
(* Technical Indicators page, lines 331-347 *)

RsiWindow == 14

BollingerWindow == 20

FastSpan == 12

SlowSpan == 26

SignalSpan == 9

Gain(close) ==
    rolling_mean(where(diff(close), series_gt(diff(close), FInt(0)), FInt(0)),
                 RsiWindow)

\* variant: the losses keep their sign
Loss_unnegated(close) ==
    rolling_mean(where(diff(close), series_lt(diff(close), FInt(0)), FInt(0)),
                 RsiWindow)

Loss(close) ==
    LET kept == where(diff(close), series_lt(diff(close), FInt(0)), FInt(0))
    IN  rolling_mean([i \in 1..Len(kept) |-> FNeg(kept[i])], RsiWindow)

Rs(close) ==
    LET gain == Gain(close)
        loss == Loss(close)
    IN  [i \in 1..Min(Len(gain), Len(loss)) |-> FDiv(gain[i], loss[i])]

Rsi(close) ==
    LET rs == Rs(close)
    IN  [i \in 1..Len(rs) |->
            FSub(FInt(100), FDiv(FInt(100), FAdd(FInt(1), rs[i])))]

Exp1(close) == ewm_mean(FSeries(close), FastSpan)

Exp2(close) == ewm_mean(FSeries(close), SlowSpan)

Macd(close) ==
    LET exp1 == Exp1(close)
        exp2 == Exp2(close)
    IN  [i \in 1..Min(Len(exp1), Len(exp2)) |-> FSub(exp1[i], exp2[i])]

Signal(close) == ewm_mean(Macd(close), SignalSpan)

Sma(close) == rolling_mean(FSeries(close), BollingerWindow)

Std(close) == rolling_std(close, BollingerWindow)

UpperBand(close) ==
    LET m == Sma(close)
        s == Std(close)
    IN  [i \in 1..Min(Len(m), Len(s)) |->
            SAdd(SOfF(m[i]), SScale(s[i], RatInt(2)))]

\* variant: the deviation is added instead of subtracted
LowerBand_plus(close) ==
    LET m == Sma(close)
        s == Std(close)
    IN  [i \in 1..Min(Len(m), Len(s)) |->
            SAdd(SOfF(m[i]), SScale(s[i], RatInt(2)))]

LowerBand(close) ==
    LET m == Sma(close)
        s == Std(close)
    IN  [i \in 1..Min(Len(m), Len(s)) |->
            SSub(SOfF(m[i]), SScale(s[i], RatInt(2)))]

\* lines 445-468: the labels of the last bar
RsiLabel(current_rsi) ==
    IF FGt(current_rsi, FInt(70)) THEN "Overbought"
    ELSE IF FLt(current_rsi, FInt(30)) THEN "Oversold"
    ELSE "Neutral"

MacdLabel(current_macd, current_signal) ==
    IF FGt(current_macd, current_signal) THEN "Bullish" ELSE "Bearish"

BbPosition(current_price, upper, lower) ==
    SScale(SDiv(SSub(SInt(current_price), lower), SSub(upper, lower)),
           RatInt(100))

BbLabel(position) ==
    IF SGt(position, SInt(80)) THEN "Upper"
    ELSE IF SLt(position, SInt(20)) THEN "Lower"
    ELSE "Middle"

-----------------------------------------------------------------------------
(* The provider's price history and fetch_stock_data, lines 81-87 *)

\* close prices of n bars: flat, then up to two moves on the last two bars
Closes(n, d1, d2) ==
    [i \in 1..n |->
        IF i = n THEN 10 + d1 + d2 ELSE IF i = n - 1 THEN 10 + d1 ELSE 10]

Deltas == {-3, -1, 0, 1, 2, 7}

CloseSeries == {Closes(n, d1, d2) : n \in 0..MaxLen, d1 \in Deltas, d2 \in Deltas}

\* stock.history(period) and stock.info: either call may raise
ProviderResponses ==
    {[raises |-> TRUE, Close |-> <<>>]}
        \cup {[raises |-> FALSE, Close |-> close] : close \in CloseSeries}

None == [is_none |-> TRUE, Close |-> <<>>]

fetch_stock_data(resp) ==
    IF resp.raises THEN None ELSE [is_none |-> FALSE, Close |-> resp.Close]

-----------------------------------------------------------------------------
(* State machine: one script run per interaction *)

Pages == {"Market Overview", "Stock Analysis", "Technical Indicators"}

\* nothing rendered yet
NoMetrics == [symbol \in indices |-> [shown |-> ""]]

Init ==
    /\ page = "Market Overview"
    /\ pc = "run"
    /\ outcome = ""
    /\ hist = None
    /\ index_metrics = NoMetrics
    /\ movers_data = <<>>
    /\ movers_df = <<>>
    /\ sentiment = [shown |-> ""]
    /\ rsi = <<>>
    /\ macd = <<>>
    /\ signal = <<>>
    /\ sma = <<>>
    /\ std = <<>>
    /\ upper_band = <<>>
    /\ lower_band = <<>>
    /\ rsi_label = ""
    /\ macd_label = ""
    /\ current_bb_position = SNaN
    /\ bb_label = ""

\* lines 90-214
MarketOverview ==
    /\ pc = "run"
    /\ page = "Market Overview"
    /\ \E index_info \in [indices -> TickerInfo],
          stock_info \in [1..NumStocks -> TickerInfo],
          vix_info \in VixInfo :
          /\ index_metrics' = [symbol \in indices |-> IndexMetric(index_info[symbol])]
          /\ movers_data' = MoversData(stock_info, NumStocks)
          /\ movers_df' = SortMovers(MoversData(stock_info, NumStocks))
          /\ sentiment' = VixSentiment(vix_info)
    /\ outcome' = "displayed"
    /\ pc' = "rendered"
    /\ UNCHANGED <<page, indicator_vars>>

\* lines 217-315: only the guard on the fetched data
StockAnalysis ==
    /\ pc = "run"
    /\ page = "Stock Analysis"
    /\ \E resp \in ProviderResponses :
          /\ hist' = fetch_stock_data(resp)
          /\ outcome' = IF fetch_stock_data(resp).is_none
                        THEN "Unable to fetch data"
                        ELSE "displayed"
    /\ pc' = "rendered"
    /\ UNCHANGED <<page, overview_vars, rsi, macd, signal, sma, std, upper_band,
                   lower_band, rsi_label, macd_label, current_bb_position, bb_label>>

\* lines 318-470, when fetch_stock_data returned None
IndicatorsUnavailable(fetched) ==
    /\ fetched.is_none
    /\ hist' = fetched
    /\ outcome' = "Unable to fetch data"
    /\ UNCHANGED <<rsi, macd, signal, sma, std, upper_band, lower_band,
                   rsi_label, macd_label, current_bb_position, bb_label>>

\* the series of lines 331-347
IndicatorSeries(close) ==
    /\ rsi' = Rsi(close)
    /\ macd' = Macd(close)
    /\ signal' = Signal(close)
    /\ sma' = Sma(close)
    /\ std' = Std(close)
    /\ upper_band' = UpperBand(close)
    /\ lower_band' = LowerBand(close)

\* no bars: rsi.iloc[-1] on line 445 raises IndexError, which nothing catches
IndicatorsNoBars(fetched) ==
    /\ ~fetched.is_none
    /\ Len(fetched.Close) = 0
    /\ hist' = fetched
    /\ IndicatorSeries(fetched.Close)
    /\ outcome' = "IndexError"
    /\ UNCHANGED <<rsi_label, macd_label, current_bb_position, bb_label>>

IndicatorsShown(fetched) ==
    /\ ~fetched.is_none
    /\ Len(fetched.Close) > 0
    /\ hist' = fetched
    /\ IndicatorSeries(fetched.Close)
    /\ LET close == fetched.Close
           last == Len(close)
       IN  /\ rsi_label' = RsiLabel(rsi'[last])
           /\ macd_label' = MacdLabel(macd'[last], signal'[last])
           /\ current_bb_position' =
                  BbPosition(close[last], upper_band'[last], lower_band'[last])
           /\ bb_label' = BbLabel(current_bb_position')
    /\ outcome' = "displayed"

TechnicalIndicators ==
    /\ pc = "run"
    /\ page = "Technical Indicators"
    /\ \E resp \in ProviderResponses :
          \/ IndicatorsUnavailable(fetch_stock_data(resp))
          \/ IndicatorsNoBars(fetch_stock_data(resp))
          \/ IndicatorsShown(fetch_stock_data(resp))
    /\ pc' = "rendered"
    /\ UNCHANGED <<page, overview_vars>>

\* line 78: choosing a page in the sidebar re-executes the script from the top
SelectPage ==
    /\ pc = "rendered"
    /\ \E p \in Pages : page' = p
    /\ pc' = "run"
    /\ outcome' = ""
    /\ hist' = None
    /\ index_metrics' = NoMetrics
    /\ movers_data' = <<>>
    /\ movers_df' = <<>>
    /\ sentiment' = [shown |-> ""]
    /\ rsi' = <<>>
    /\ macd' = <<>>
    /\ signal' = <<>>
    /\ sma' = <<>>
    /\ std' = <<>>
    /\ upper_band' = <<>>
    /\ lower_band' = <<>>
    /\ rsi_label' = ""
    /\ macd_label' = ""
    /\ current_bb_position' = SNaN
    /\ bb_label' = ""

Next ==
    \/ MarketOverview
    \/ StockAnalysis
    \/ TechnicalIndicators
    \/ SelectPage

Spec == Init /\ [][Next]_vars

-----------------------------------------------------------------------------
(* Reference definitions used by the properties below *)

\* classifyLevel of the design: the first label whose boundary exceeds the
\* value, else the default label
classifyLevel(value, thresholds, default, exceeds(_, _)) ==
    LET hits == {j \in 1..Len(thresholds) : exceeds(thresholds[j].boundary, value)}
    IN  IF hits = {} THEN default
        ELSE thresholds[CHOOSE j \in hits : \A h \in hits : j <= h].label

VixTable ==
    << [boundary |-> 20, label |-> "Extreme Greed"],
       [boundary |-> 30, label |-> "Greed"],
       [boundary |-> 40, label |-> "Neutral"],
       [boundary |-> 50, label |-> "Fear"] >>

RsiTable ==
    << [boundary |-> FInt(30), label |-> "Oversold"],
       [boundary |-> FInt(70), label |-> "Neutral"] >>

BbTable ==
    << [boundary |-> SInt(20), label |-> "Lower"],
       [boundary |-> SInt(80), label |-> "Middle"] >>

\* a Technical Indicators run that computed the series of hist
Computed ==
    /\ pc = "rendered"
    /\ page = "Technical Indicators"
    /\ ~hist.is_none

\* ... and went on to show the current values
Shown == Computed /\ outcome = "displayed"

\* sum of max(delta, 0) and of max(-delta, 0) over the deltas of close[lo..hi]
RECURSIVE Gains(_, _, _)
Gains(close, lo, hi) ==
    IF hi <= lo THEN 0
    ELSE IF hi = lo + 1 THEN Max(close[hi] - close[lo], 0)
    ELSE Gains(close, lo, (lo + hi) \div 2) + Gains(close, (lo + hi) \div 2, hi)

RECURSIVE Losses(_, _, _)
Losses(close, lo, hi) ==
    IF hi <= lo THEN 0
    ELSE IF hi = lo + 1 THEN Max(close[lo] - close[hi], 0)
    ELSE Losses(close, lo, (lo + hi) \div 2) + Losses(close, (lo + hi) \div 2, hi)

\* sum over close[lo..hi] of (count * x - total)^2: the squared deviations
\* from the mean total / count, scaled by count^2
RECURSIVE SqDev(_, _, _, _, _)
SqDev(close, lo, hi, total, count) ==
    IF lo > hi THEN 0
    ELSE IF lo = hi
    THEN (count * close[lo] - total) * (count * close[lo] - total)
    ELSE SqDev(close, lo, (lo + hi) \div 2, total, count)
             + SqDev(close, (lo + hi) \div 2 + 1, hi, total, count)

\* the squared deviations of the 20 bars ending at i from their mean,
\* divided by divisor
WindowVariance(close, i, divisor) ==
    Rat(SqDev(close, i - 19, i, SumInt(close, i - 19, i), 20),
        20 * 20 * divisor)

-----------------------------------------------------------------------------
(* Properties *)

\* C1: whenever previous == 0 (also when the provider supplies no previous
\* close), the change is current - previous and the percent change is
\* undefined, never 0, in the index summary and in the market movers.
C1_PercentChangeUndefined ==
    /\ \A symbol \in indices :
          (index_metrics[symbol].shown = "metric"
              /\ index_metrics[symbol].prev_close = 0)
          => /\ index_metrics[symbol].change =
                   index_metrics[symbol].current_price
                       - index_metrics[symbol].prev_close
             /\ ~IsNum(index_metrics[symbol].change_pct)
    /\ \A j \in 1..Len(movers_data) :
          movers_data[j].prev_close = 0
          => /\ movers_data[j].Change =
                   movers_data[j].Price - movers_data[j].prev_close
             /\ ~IsNum(movers_data[j].ChangePct)

\* C2: at every position whose trailing window of 14 deltas has no loss,
\* RSI is a number: 100 when the window has a gain, 50 when the closes of
\* the window are all equal.
C2_RsiZeroLossDefined ==
    Computed =>
        \A i \in 15..Len(hist.Close) :
            Losses(hist.Close, i - 14, i) = 0
            => rsi[i] = (IF Gains(hist.Close, i - 14, i) > 0
                         THEN FInt(100) ELSE FInt(50))

\* C3 as stated: RSI has one entry per bar and the first 14 entries
\* (indices 0..13) are undefined, so a series shorter than 15 bars has no
\* defined RSI.
C3_FirstWindowEntriesUndefined ==
    Computed =>
        /\ Len(rsi) = Len(hist.Close)
        /\ \A i \in 1..Min(14, Len(rsi)) : IsNaN(rsi[i])

\* C3 amended: RSI has one entry per bar and the first 13 entries (indices
\* 0..12) are undefined, so a series shorter than 14 bars has no defined
\* RSI; index 0 contributes a gain and a loss of 0 and counts as one of the
\* 14 observations, so the entry at index 13 is a number (100 G / (G + L)
\* over the 13 deltas) unless the first 14 closes are all equal.
C3_FirstThirteenUndefined ==
    Computed =>
        /\ Len(rsi) = Len(hist.Close)
        /\ \A i \in 1..Min(13, Len(rsi)) : IsNaN(rsi[i])
        /\ Len(rsi) >= 14 =>
              LET g == Gains(hist.Close, 1, 14)
                  l == Losses(hist.Close, 1, 14)
              IN  IF g + l = 0 THEN IsNaN(rsi[14])
                  ELSE rsi[14] = Num(100 * g, g + l)

C3_Witness ==
    /\ Computed
    /\ Len(hist.Close) = 14
    /\ IsNum(rsi[14])

\* C4 as stated: the Bollinger standard deviation is the population standard
\* deviation of the 20-bar window (divisor 20), and the bands are the middle
\* band plus and minus twice that value.
C4_PopulationStd ==
    Computed =>
        \A i \in 20..Len(hist.Close) :
            LET var == WindowVariance(hist.Close, i, 20)
            IN  /\ std[i] = Surd(RatInt(0), RatInt(1), var)
                /\ upper_band[i] = Surd(RatOf(sma[i]), RatInt(2), var)
                /\ lower_band[i] = Surd(RatOf(sma[i]), RatInt(-2), var)

\* C4 amended: the Bollinger standard deviation is the sample standard
\* deviation of the 20-bar window (sum of squared deviations from the
\* window mean divided by window - 1 = 19), and the bands are the middle
\* band plus and minus twice that value.
C4_SampleStd ==
    Computed =>
        \A i \in 20..Len(hist.Close) :
            LET var == WindowVariance(hist.Close, i, 19)
            IN  /\ std[i] = Surd(RatInt(0), RatInt(1), var)
                /\ upper_band[i] = Surd(RatOf(sma[i]), RatInt(2), var)
                /\ lower_band[i] = Surd(RatOf(sma[i]), RatInt(-2), var)

C4_Witness ==
    /\ Computed
    /\ Len(hist.Close) >= 20
    /\ std[Len(hist.Close)].r.n > 0

\* C5: a fetched price series with no bars ends the indicator computation
\* in InvalidInputError, not in the provider-unavailable outcome, not in a
\* display of current values and not in an unrelated error.
C5_EmptySeriesInvalidInput ==
    (Computed /\ Len(hist.Close) = 0) => outcome = "InvalidInputError"

\* C6: for a series of at least one bar the MACD line and the signal line
\* have one number per bar; each EMA starts at the first value of its input
\* and continues as a * x[i] + (1 - a) * EMA[i-1], a = 2 / (span + 1), with
\* spans 12, 26 and 9, so both lines are 0 at the first bar.
C6_MacdDefinedFromFirstBar ==
    Shown =>
        LET close == hist.Close
        IN  /\ Len(macd) = Len(close)
            /\ Len(signal) = Len(close)
            /\ \A i \in 1..Len(close) : IsNum(macd[i]) /\ IsNum(signal[i])
            /\ macd[1] = FInt(0)
            /\ signal[1] = FInt(0)
            /\ Len(close) >= 2 =>
                  macd[2] = FMul(FSub(Num(2, 13), Num(2, 27)),
                                 FInt(close[2] - close[1]))
            /\ \A i \in 2..Len(close) :
                  signal[i] = FAdd(FMul(Num(2, 10), macd[i]),
                                   FMul(Num(8, 10), signal[i - 1]))

C6_Witness ==
    /\ Shown
    /\ Len(hist.Close) >= 2
    /\ macd[2] # FInt(0)
    /\ signal[Len(hist.Close)] # FInt(0)

\* C7: every defined RSI value lies between 0 and 100.
C7_RsiBounded ==
    Computed =>
        \A i \in 1..Len(rsi) :
            ~IsNaN(rsi[i])
            => /\ IsNum(rsi[i])
               /\ ~FLt(rsi[i], FInt(0))
               /\ ~FGt(rsi[i], FInt(100))

C7_Witness ==
    /\ Computed
    /\ \E i \in 1..Len(rsi) :
          IsNum(rsi[i]) /\ FGt(rsi[i], FInt(0)) /\ FLt(rsi[i], FInt(100))

\* C8: wherever the middle band is defined, lower <= middle <= upper.
C8_BandsOrdered ==
    Computed =>
        \A i \in 1..Len(sma) :
            IsNum(sma[i])
            => /\ SLe(lower_band[i], SOfF(sma[i]))
               /\ SLe(SOfF(sma[i]), upper_band[i])

C8_Witness ==
    /\ Computed
    /\ \E i \in 1..Len(sma) :
          /\ IsNum(sma[i])
          /\ SLt(lower_band[i], SOfF(sma[i]))
          /\ SLt(SOfF(sma[i]), upper_band[i])

\* C9: the sentiment label is the first label of the table 20 Extreme
\* Greed, 30 Greed, 40 Neutral, 50 Fear whose boundary strictly exceeds the
\* volatility index, else Extreme Fear; a value on a boundary falls into
\* the next bucket.
C9_SentimentIsClassifyLevel ==
    sentiment.shown = "sentiment"
    => sentiment.sentiment =
           classifyLevel(sentiment.vix_price, VixTable, "Extreme Fear",
                         LAMBDA b, v : b > v)

C9_Witness ==
    /\ sentiment.shown = "sentiment"
    /\ sentiment.vix_price = 30
    /\ sentiment.sentiment = "Neutral"

\* C10: for a defined RSI and a defined band position the label shown is
\* the classifyLevel result for the tables 30 Oversold, 70 Neutral, default
\* Overbought and 20 Lower, 80 Middle, default Upper, also at the values
\* 30, 70, 20 and 80.
C10_LabelsAreClassifyLevel ==
    Shown =>
        /\ IsNum(rsi[Len(rsi)])
           => rsi_label = classifyLevel(rsi[Len(rsi)], RsiTable, "Overbought",
                                        LAMBDA b, v : FGt(b, v))
        /\ current_bb_position.k = "num"
           => bb_label = classifyLevel(current_bb_position, BbTable, "Upper",
                                       LAMBDA b, v : SGt(b, v))

=============================================================================
